---------------------------- MODULE Spec2Model ----------------------------
(***************************************************************************)
(* Model of api/index.py: the PDF signing demo with a "current document"   *)
(* pointer and a signing history, both kept as flat files under TMP_ROOT.  *)
(*                                                                         *)
(* The state is the content of TMP_ROOT (docs/, renders/, meta/,           *)
(* current.json, history.json), the wall clock read by utc_iso(), and the  *)
(* last HTTP response.  File-system calls are taken to succeed: the code   *)
(* swallows their exceptions (try/except: pass), and a failing disk is not *)
(* what the statements below are about.                                    *)
(*                                                                         *)
(* Strings are sequences of one-character strings, so that safe_doc_id,    *)
(* allowed_file and the comparison of signed_at keys are computed as the   *)
(* code computes them.  Python's None and the empty string are both the    *)
(* empty sequence: every caller tests them with "if not x".                *)
(***************************************************************************)
EXTENDS Naturals, Sequences, FiniteSets

VARIABLES
    docs,       \* doc_ids whose PDF is in DOCS_DIR
    renders,    \* doc_ids with rendered page PNGs in RENDERS_DIR
    meta,       \* META_DIR: doc_id -> original_filename
    current,    \* CURRENT_FILE: the doc_id it holds, <<>> when the file is absent
    history,    \* HISTORY_FILE: the list of entries, <<>> when the file is absent
    now,        \* the wall clock, in seconds
    issued,     \* the doc_ids uuid4 has handed out, oldest first
    resp,       \* the last HTTP response
    signedOk,   \* the doc_ids for which api_sign has answered ok=true
    wk          \* the requests in flight (overlapping requests only)

vars == <<docs, renders, meta, current, history, now, issued, resp, signedOk, wk>>

fsVars == <<docs, renders, meta, current, history>>

-----------------------------------------------------------------------------
(* Bounds *)

MaxDocs == 2        \* doc_ids uuid4 can hand out
MaxTime == 1        \* seconds the clock can advance
MaxParts == 1       \* page parts in one api_sign request

(* Program constants *)

MinUsefulBytes == 2000

None == <<>>

HexDigits == <<"a", "b", "c", "d", "e", "f", "0", "1", "2", "3", "4", "5",
               "6", "7", "8", "9">>

HexChars == {HexDigits[i] : i \in 1..Len(HexDigits)}

\* uuid.uuid4().hex[:12], shortened to one hexadecimal character
UuidIds == {<<HexDigits[i]>> : i \in 1..MaxDocs}

\* doc_ids a client can put in a URL: the issued kind, and malformed ones
BadIds == {<<>>, <<"a", "Z">>}

RequestIds == UuidIds \cup BadIds

ALLOWED_EXT == {<<"p", "d", "f">>}

\* filenames a client can upload
GoodNames == {<<"a", ".", "b", ".", "P", "d", "f">>}

BadNames == {<<>>, <<"p", "d", "f">>, <<"a", ".", "t", "x", "t">>,
             <<"a", ".", "p", "d", "f", ".", "t">>, <<"a", ".">>}

UploadNames == GoodNames \cup BadNames

-----------------------------------------------------------------------------
(* Helpers *)

\* str.lower() on the characters that occur
LowerChar(c) ==
    CASE c = "P" -> "p"
      [] c = "D" -> "d"
      [] c = "F" -> "f"
      [] c = "Z" -> "z"
      [] OTHER -> c

Lower(s) == [i \in 1..Len(s) |-> LowerChar(s[i])]

\* the index of the last "." of s, 0 when there is none
RECURSIVE LastDot(_)
LastDot(s) ==
    IF s = <<>> THEN 0
    ELSE IF s[Len(s)] = "." THEN Len(s)
    ELSE LastDot(SubSeq(s, 1, Len(s) - 1))

\* filename.rsplit(".", 1)[1]
RSplitExt(s) == SubSeq(s, LastDot(s) + 1, Len(s))

\* faulty variant: any dotted component may be the extension
allowed_file_anydot(filename) ==
    \E i \in 1..Len(filename) : \E j \in i..Len(filename) :
        /\ filename[i] = "."
        /\ Lower(SubSeq(filename, i + 1, j)) \in ALLOWED_EXT

allowed_file(filename) ==
    /\ LastDot(filename) # 0
    /\ Lower(RSplitExt(filename)) \in ALLOWED_EXT

\* safe_doc_id returns doc_id when this holds, and aborts with 400 otherwise
safe_doc_id(doc_id) ==
    /\ doc_id # <<>>
    /\ \A i \in 1..Len(doc_id) : doc_id[i] \in HexChars

\* datetime.now(timezone.utc).isoformat(timespec="seconds"): fixed width,
\* here two decimal digits
utc_iso == <<now \div 10, now % 10>>

\* Python's str < str, on the digit strings utc_iso produces
RECURSIVE StrLess(_, _)
StrLess(a, b) ==
    IF b = <<>> THEN FALSE
    ELSE IF a = <<>> THEN TRUE
    ELSE IF a[1] # b[1] THEN a[1] < b[1]
    ELSE StrLess(Tail(a), Tail(b))

Remove(f, d) == [x \in (DOMAIN f) \ {d} |-> f[x]]

Put(f, d, v) == [x \in (DOMAIN f) \cup {d} |-> IF x = d THEN v ELSE f[x]]

\* f"{doc_id}.pdf"
DefaultName(doc_id) == doc_id \o <<".", "p", "d", "f">>

-----------------------------------------------------------------------------
(* Current document pointer *)

get_current_doc_id ==
    IF current # <<>> /\ safe_doc_id(current) THEN current ELSE None

\* faulty variants: the pointer is never cleared, or always
clear_current_keep(cur, doc_id) == cur

clear_current_always(cur, doc_id) == None

\* CURRENT_FILE after clear_current_if(doc_id), given its content cur

clear_current_if(cur, doc_id) ==
    LET c == IF cur # <<>> /\ safe_doc_id(cur) THEN cur ELSE None
    IN  IF c # None /\ c = doc_id THEN None ELSE cur

-----------------------------------------------------------------------------
(* History *)

\* sorted(items, key=signed_at, reverse=True): stable, so among equal keys
\* the original order is kept.  InsertDesc puts e behind every entry whose
\* key is not smaller than e's.
RECURSIVE InsertDesc(_, _)
InsertDesc(s, e) ==
    IF s = <<>> THEN <<e>>
    ELSE IF StrLess(s[1].signed_at, e.signed_at) THEN <<e>> \o s
    ELSE <<s[1]>> \o InsertDesc(Tail(s), e)

\* faulty variant: a sort that puts e in front of entries with an equal key
RECURSIVE InsertDescFirst(_, _)
InsertDescFirst(s, e) ==
    IF s = <<>> THEN <<e>>
    ELSE IF ~StrLess(e.signed_at, s[1].signed_at) THEN <<e>> \o s
    ELSE <<s[1]>> \o InsertDescFirst(Tail(s), e)

RECURSIVE SortDescUnstable(_)
SortDescUnstable(items) ==
    IF items = <<>> THEN <<>>
    ELSE InsertDescFirst(SortDescUnstable(SubSeq(items, 1, Len(items) - 1)),
                         items[Len(items)])

RECURSIVE SortDesc(_)
SortDesc(items) ==
    IF items = <<>> THEN <<>>
    ELSE InsertDesc(SortDesc(SubSeq(items, 1, Len(items) - 1)),
                    items[Len(items)])

\* the entry add_history_entry appends, filename read from the meta file
HistoryEntry(doc_id, filename, at) ==
    [doc_id |-> doc_id,
     filename |-> IF filename # None THEN filename ELSE DefaultName(doc_id),
     signed_at |-> at]

MetaName(m, doc_id) == IF doc_id \in DOMAIN m THEN m[doc_id] ELSE None

\* faulty variant: the loaded list is dropped
add_history_replace(items, doc_id, filename, at) ==
    <<HistoryEntry(doc_id, filename, at)>>

\* the list add_history_entry saves, given the list it loaded

add_history_items(items, doc_id, filename, at) ==
    SortDesc(Append(items, HistoryEntry(doc_id, filename, at)))

-----------------------------------------------------------------------------
(* Files of one document *)

FileSystem == [docs |-> docs, renders |-> renders, meta |-> meta]

\* faulty variant: the PDF is left in DOCS_DIR
cleanup_keeps_pdf(fs, doc_id) ==
    [docs |-> fs.docs,
     renders |-> fs.renders \ {doc_id},
     meta |-> Remove(fs.meta, doc_id)]

cleanup_doc_files(fs, doc_id) ==
    [docs |-> fs.docs \ {doc_id},
     renders |-> fs.renders \ {doc_id},
     meta |-> Remove(fs.meta, doc_id)]

-----------------------------------------------------------------------------
(* The body of an api_sign request *)

\* lengths of the overlay blobs a client sends
Lens == {MinUsefulBytes, MinUsefulBytes + 1}

\* multipart/form-data: a file part has a field name and a blob
MultipartGood == {[key |-> <<"page_", "1">>, len |-> n] : n \in Lens}

MultipartOdd ==
    {[key |-> <<"page_", "1">>, len |-> 0],
     [key |-> <<"page_", "x">>, len |-> MinUsefulBytes + 1],
     [key |-> <<"file">>, len |-> MinUsefulBytes + 1]}

\* JSON: an item of "pages" has an index and a dataURL; len is the length of
\* the decoded bytes, b64 whether base64.b64decode accepts the text
JsonGood ==
    {[index |-> "1", prefix |-> TRUE, b64 |-> TRUE, len |-> n] : n \in Lens}

JsonOdd ==
    {[index |-> "1", prefix |-> TRUE, b64 |-> TRUE, len |-> 0],
     [index |-> "x", prefix |-> TRUE, b64 |-> TRUE, len |-> MinUsefulBytes + 1],
     [index |-> "1", prefix |-> FALSE, b64 |-> TRUE, len |-> MinUsefulBytes + 1],
     [index |-> "1", prefix |-> TRUE, b64 |-> FALSE, len |-> MinUsefulBytes + 1]}

SeqsUpTo(S, n) == UNION {[1..k -> S] : k \in 0..n}

\* up to MaxParts well-formed parts, or an odd part, alone or with the
\* largest well-formed part behind it
PartLists(Good, Odd) ==
    SeqsUpTo(Good, MaxParts)
        \cup {<<o>> : o \in Odd}
        \cup {<<o, g>> : o \in Odd, g \in {x \in Good : x.len > MinUsefulBytes}}

\* payload: "object" a JSON object with a "pages" list, "falsy" no JSON or an
\* empty value (get_json(silent=True) or {}), "other" any other JSON value
Requests ==
    {[ctype |-> "multipart", payload |-> "falsy", parts |-> p] :
        p \in PartLists(MultipartGood, MultipartOdd)}
    \cup {[ctype |-> "json", payload |-> "object", parts |-> p] :
        p \in PartLists(JsonGood, JsonOdd)}
    \cup {[ctype |-> "json", payload |-> k, parts |-> <<>>] : k \in {"falsy", "other"}}

\* int(key.split("_", 1)[1]) succeeds
IntOk(t) == t \in {"0", "1", "2"}

MultipartKeeps(part) ==
    /\ part.key[1] = "page_"
    /\ Len(part.key) = 2 /\ IntOk(part.key[2])
    /\ part.len > 0

JsonKeeps(part) == IntOk(part.index) /\ part.prefix /\ part.b64

PartLens(parts) == [i \in 1..Len(parts) |-> parts[i].len]

\* payload.get("pages", []) raises AttributeError on a JSON value that is
\* neither an object nor falsy: nothing is collected and Flask answers 500
CollectRaises(rq) == rq.ctype = "json" /\ rq.payload = "other"

\* _collect_pages_from_request: the lengths of the collected png_bytes
collect_pages(rq) ==
    IF rq.ctype = "multipart" THEN PartLens(SelectSeq(rq.parts, MultipartKeeps))
    ELSE IF rq.payload = "object" THEN PartLens(SelectSeq(rq.parts, JsonKeeps))
    ELSE <<>>

\* any(len(png_bytes) > 2000 for _, png_bytes in pages)
useful(pages) == \E i \in 1..Len(pages) : pages[i] > MinUsefulBytes

-----------------------------------------------------------------------------
(* Responses *)

Response(op, status, doc, msg, items) ==
    [op |-> op, status |-> status, doc |-> doc, msg |-> msg, items |-> items]

Reply(op, status, doc, msg) == resp' = Response(op, status, doc, msg, <<>>)

Workers == {"w1", "w2"}

Idle == [pc |-> "idle", doc |-> None, old |-> None, name |-> None,
         items |-> <<>>]

Init ==
    /\ docs = {}
    /\ renders = {}
    /\ meta = <<>>
    /\ current = <<>>
    /\ history = <<>>
    /\ now = 0
    /\ issued = <<>>
    /\ resp = Response("none", 0, None, "", <<>>)
    /\ signedOk = {}
    /\ wk = [w \in Workers |-> Idle]

Issued == {issued[i] : i \in 1..Len(issued)}

-----------------------------------------------------------------------------
(* Requests that do not overlap: one action is one whole handler *)

\* what upload answers with 400, "" when it accepts the file
upload_rejects(hasFile, filename) ==
    IF ~hasFile THEN "No file field"
    ELSE IF filename = <<>> THEN "No file selected"
    ELSE IF ~allowed_file(filename) THEN "Only PDF allowed"
    ELSE ""

\* faulty variant: the document that was current is left behind
upload_keeps_old(fs, old) == fs

\* the files after upload has cleaned up the document that was current

upload_cleanup(fs, old) ==
    IF old # None THEN cleanup_doc_files(fs, old) ELSE fs

\* CURRENT_FILE after set_current_doc_id(doc_id)
set_current_doc_id(cur, doc_id) == doc_id

\* POST /upload.  uuid4 is taken never to hand out a doc_id twice.
Upload(hasFile, filename) ==
    /\ \A w \in Workers : wk[w].pc = "idle"
    /\ IF upload_rejects(hasFile, filename) # ""
       THEN /\ Reply("upload", 400, None, upload_rejects(hasFile, filename))
            /\ UNCHANGED <<fsVars, issued>>
       ELSE \E doc_id \in UuidIds \ Issued :
               LET fs == upload_cleanup(FileSystem, get_current_doc_id)
               IN  /\ docs' = fs.docs \cup {doc_id}
                   /\ renders' = fs.renders
                   /\ meta' = Put(fs.meta, doc_id, filename)
                   /\ current' = set_current_doc_id(current, doc_id)
                   /\ issued' = Append(issued, doc_id)
                   /\ Reply("upload", 200, doc_id, "share")
                   /\ UNCHANGED history
    /\ UNCHANGED <<now, signedOk, wk>>

\* sign(doc_id): safe_doc_id, render_pdf_pages_to_pngs, the signing page
SignPage(op, doc_id) ==
    IF ~safe_doc_id(doc_id)
    THEN /\ Reply(op, 400, doc_id, "Invalid doc_id")
         /\ UNCHANGED renders
    ELSE IF doc_id \notin docs
    THEN /\ Reply(op, 404, doc_id, "PDF not found")
         /\ UNCHANGED renders
    ELSE /\ renders' = renders \cup {doc_id}
         /\ Reply(op, 200, doc_id, "sign")

\* GET /sign/<doc_id>
Sign(doc_id) ==
    /\ \A w \in Workers : wk[w].pc = "idle"
    /\ SignPage("sign", doc_id)
    /\ UNCHANGED <<docs, meta, current, history, now, issued, signedOk, wk>>

\* faulty variant: the latest upload is shown, whatever the pointer says
sign_current_latest == IF issued = <<>> THEN None ELSE issued[Len(issued)]

\* the document GET /sign/current shows
sign_current_doc == get_current_doc_id

\* GET /sign/current
SignCurrent ==
    /\ \A w \in Workers : wk[w].pc = "idle"
    /\ IF sign_current_doc = None
       THEN /\ Reply("sign_current", 200, None, "upload: Brak aktywnego dokumentu")
            /\ UNCHANGED renders
       ELSE SignPage("sign_current", sign_current_doc)
    /\ UNCHANGED <<docs, meta, current, history, now, issued, signedOk, wk>>

\* GET /history
History ==
    /\ \A w \in Workers : wk[w].pc = "idle"
    /\ resp' = Response("history", 200, None, "history", history)
    /\ UNCHANGED <<fsVars, now, issued, signedOk, wk>>

\* what api_sign answers before it changes anything, status 200 when it goes on
api_sign_checks(doc_id, stored, rq) ==
    IF ~safe_doc_id(doc_id) THEN [status |-> 400, msg |-> "Invalid doc_id"]
    ELSE IF ~stored THEN [status |-> 404, msg |-> "PDF not found"]
    ELSE IF CollectRaises(rq) THEN [status |-> 500, msg |-> "Internal Server Error"]
    ELSE LET pages == collect_pages(rq)
         IN  IF pages = <<>>
             THEN [status |-> 400, msg |-> "No signature data received"]
             ELSE IF ~useful(pages)
             THEN [status |-> 400, msg |-> "Signature looks empty"]
             ELSE [status |-> 200, msg |-> "Dokument zostal podpisany."]

\* POST /api/sign/<doc_id> with body rq
ApiSignReq(doc_id, rq) ==
    LET chk == api_sign_checks(doc_id, doc_id \in docs, rq)
    IN  /\ \A w \in Workers : wk[w].pc = "idle"
        /\ Reply("api_sign", chk.status, doc_id, chk.msg)
        /\ IF chk.status # 200
           THEN UNCHANGED <<fsVars, signedOk>>
           ELSE LET fs == cleanup_doc_files(FileSystem, doc_id)
                IN  /\ history' = add_history_items(history, doc_id,
                                                    MetaName(meta, doc_id), utc_iso)
                    /\ current' = clear_current_if(current, doc_id)
                    /\ docs' = fs.docs
                    /\ renders' = fs.renders
                    /\ meta' = fs.meta
                    /\ signedOk' = signedOk \cup {doc_id}
        /\ UNCHANGED <<now, issued, wk>>

\* the bodies tried with doc_id: all of them for a stored document, and for
\* any other doc_id an empty body, a malformed one and a well-signed one
RequestsFor(doc_id) ==
    IF doc_id \in docs THEN Requests
    ELSE {[ctype |-> "json", payload |-> "falsy", parts |-> <<>>],
          [ctype |-> "json", payload |-> "other", parts |-> <<>>],
          [ctype |-> "multipart", payload |-> "falsy",
           parts |-> <<[key |-> <<"page_", "1">>, len |-> MinUsefulBytes + 1]>>]}

ApiSign(doc_id) == \E rq \in RequestsFor(doc_id) : ApiSignReq(doc_id, rq)

\* the clock advances
Tick ==
    /\ now < MaxTime
    /\ now' = now + 1
    /\ UNCHANGED <<fsVars, issued, resp, signedOk, wk>>

Next ==
    \/ \E hasFile \in BOOLEAN, filename \in UploadNames : Upload(hasFile, filename)
    \/ \E doc_id \in RequestIds : Sign(doc_id)
    \/ SignCurrent
    \/ History
    \/ \E doc_id \in RequestIds : ApiSign(doc_id)
    \/ Tick

Spec == Init /\ [][Next]_vars

-----------------------------------------------------------------------------
(* Requests that overlap: a handler runs on worker w as a sequence of steps, *)
(* one step per access to the shared files, and steps of two workers         *)
(* interleave.  Only requests that pass their checks are split: a rejected   *)
(* request writes nothing and is the single step above.                      *)

Goto(w, pc, doc, old, name, items) ==
    wk' = [wk EXCEPT ![w] = [pc |-> pc, doc |-> doc, old |-> old, name |-> name,
                             items |-> items]]

\* upload, lines 257-266: the file is accepted, old = get_current_doc_id()
UploadBegin(w, filename) ==
    /\ wk[w].pc = "idle"
    /\ upload_rejects(TRUE, filename) = ""
    /\ Goto(w, "u_cleanup", None, get_current_doc_id, filename, <<>>)
    /\ UNCHANGED <<fsVars, now, issued, resp, signedOk>>

\* upload, lines 267-268: cleanup_doc_files(old)
UploadCleanup(w) ==
    /\ wk[w].pc = "u_cleanup"
    /\ LET fs == upload_cleanup(FileSystem, wk[w].old)
       IN  /\ docs' = fs.docs
           /\ renders' = fs.renders
           /\ meta' = fs.meta
    /\ Goto(w, "u_save", None, None, wk[w].name, <<>>)
    /\ UNCHANGED <<current, history, now, issued, resp, signedOk>>

\* upload, lines 270-284: a new doc_id, the PDF and its meta file are written
UploadSave(w) ==
    /\ wk[w].pc = "u_save"
    /\ \E doc_id \in UuidIds \ Issued :
          /\ docs' = docs \cup {doc_id}
          /\ meta' = Put(meta, doc_id, wk[w].name)
          /\ issued' = Append(issued, doc_id)
          /\ Goto(w, "u_current", doc_id, None, None, <<>>)
    /\ UNCHANGED <<renders, current, history, now, resp, signedOk>>

\* upload, lines 287-299: set_current_doc_id(doc_id) and the share page
UploadSetCurrent(w) ==
    /\ wk[w].pc = "u_current"
    /\ current' = set_current_doc_id(current, wk[w].doc)
    /\ Reply("upload", 200, wk[w].doc, "share")
    /\ wk' = [wk EXCEPT ![w] = Idle]
    /\ UNCHANGED <<docs, renders, meta, history, now, issued, signedOk>>

\* api_sign, lines 361-371: the checks pass: the doc_id is valid, its PDF
\* exists and the body holds a useful overlay
ApiSignBegin(w, doc_id) ==
    /\ wk[w].pc = "idle"
    /\ (\E rq \in Requests : api_sign_checks(doc_id, doc_id \in docs, rq).status = 200) = TRUE
    /\ Goto(w, "s_meta", doc_id, None, None, <<>>)
    /\ UNCHANGED <<fsVars, now, issued, resp, signedOk>>

\* add_history_entry, lines 206-213: the filename is read from the meta file
ApiSignReadMeta(w) ==
    /\ wk[w].pc = "s_meta"
    /\ Goto(w, "s_load", wk[w].doc, None, MetaName(meta, wk[w].doc), <<>>)
    /\ UNCHANGED <<fsVars, now, issued, resp, signedOk>>

\* add_history_entry, line 215: items = load_history()
ApiSignLoad(w) ==
    /\ wk[w].pc = "s_load"
    /\ Goto(w, "s_save", wk[w].doc, None, wk[w].name, history)
    /\ UNCHANGED <<fsVars, now, issued, resp, signedOk>>

\* add_history_entry, lines 216-224: append, sort, save_history
ApiSignSave(w) ==
    /\ wk[w].pc = "s_save"
    /\ history' = add_history_items(wk[w].items, wk[w].doc, wk[w].name, utc_iso)
    /\ Goto(w, "s_unmeta", wk[w].doc, None, None, <<>>)
    /\ UNCHANGED <<docs, renders, meta, current, now, issued, resp, signedOk>>

\* add_history_entry, lines 226-231: the meta file is unlinked
ApiSignUnlinkMeta(w) ==
    /\ wk[w].pc = "s_unmeta"
    /\ meta' = Remove(meta, wk[w].doc)
    /\ Goto(w, "s_cur", wk[w].doc, None, None, <<>>)
    /\ UNCHANGED <<docs, renders, current, history, now, issued, resp, signedOk>>

\* clear_current_if, line 177: cur = get_current_doc_id(), kept in old
ApiSignReadCurrent(w) ==
    /\ wk[w].pc = "s_cur"
    /\ Goto(w, "s_clear", wk[w].doc, get_current_doc_id, None, <<>>)
    /\ UNCHANGED <<fsVars, now, issued, resp, signedOk>>

\* clear_current_if, lines 178-183: CURRENT_FILE is unlinked when cur == doc_id
ApiSignClear(w) ==
    /\ wk[w].pc = "s_clear"
    /\ current' = IF clear_current_if(wk[w].old, wk[w].doc) = None /\ wk[w].old # None
                  THEN <<>> ELSE current
    /\ Goto(w, "s_cleanup", wk[w].doc, None, None, <<>>)
    /\ UNCHANGED <<docs, renders, meta, history, now, issued, resp, signedOk>>

\* api_sign, lines 375-377: cleanup_doc_files(doc_id) and the ok answer
ApiSignCleanup(w) ==
    /\ wk[w].pc = "s_cleanup"
    /\ LET fs == cleanup_doc_files(FileSystem, wk[w].doc)
       IN  /\ docs' = fs.docs
           /\ renders' = fs.renders
           /\ meta' = fs.meta
    /\ Reply("api_sign", 200, wk[w].doc, "Dokument zostal podpisany.")
    /\ signedOk' = signedOk \cup {wk[w].doc}
    /\ wk' = [wk EXCEPT ![w] = Idle]
    /\ UNCHANGED <<current, history, now, issued>>

UploadSteps ==
    \/ \E w \in Workers, filename \in GoodNames : UploadBegin(w, filename)
    \/ \E w \in Workers : UploadCleanup(w)
    \/ \E w \in Workers : UploadSave(w)
    \/ \E w \in Workers : UploadSetCurrent(w)

ApiSignSteps ==
    \/ \E w \in Workers, doc_id \in UuidIds : ApiSignBegin(w, doc_id)
    \/ \E w \in Workers : ApiSignReadMeta(w)
    \/ \E w \in Workers : ApiSignLoad(w)
    \/ \E w \in Workers : ApiSignSave(w)
    \/ \E w \in Workers : ApiSignUnlinkMeta(w)
    \/ \E w \in Workers : ApiSignReadCurrent(w)
    \/ \E w \in Workers : ApiSignClear(w)
    \/ \E w \in Workers : ApiSignCleanup(w)

\* uploads may overlap; an api_sign request overlaps nothing
NextUploads ==
    \/ \E doc_id \in RequestIds : ApiSign(doc_id)
    \/ UploadSteps

SpecUploads == Init /\ [][NextUploads]_vars

\* uploads and api_sign requests may overlap
NextOverlap == NextUploads \/ ApiSignSteps

SpecOverlap == Init /\ [][NextOverlap]_vars

-----------------------------------------------------------------------------
(* Properties *)

Quiet == \A w \in Workers : wk[w].pc = "idle"

RemoveAt(s, i) == SubSeq(s, 1, i - 1) \o SubSeq(s, i + 1, Len(s))

HistoryCount(h, d) == Cardinality({i \in 1..Len(h) : h[i].doc_id = d})

\* a doc_id the routes accept: not empty, lower-case hexadecimal digits only
ValidId(d) ==
    /\ Len(d) > 0
    /\ \A i \in 1..Len(d) :
          d[i] \in {"0", "1", "2", "3", "4", "5", "6", "7", "8", "9",
                    "a", "b", "c", "d", "e", "f"}

\* the request carries an overlay of more than 2000 bytes
HasOverlay(rq) ==
    /\ ~CollectRaises(rq)
    /\ \E i \in 1..Len(collect_pages(rq)) : collect_pages(rq)[i] > 2000

SignedOkStep(d) == ApiSign(d) /\ resp'.status = 200

\* C1: a successful POST /api/sign/<doc_id> (valid doc_id, PDF stored, an
\* overlay of more than 2000 bytes) answers ok; the history is then one entry
\* longer, the new entry carries doc_id, and taking it out leaves exactly the
\* history as it was.
C1_SignRecordsEvent ==
    [][\A d \in (IF resp'.op = "api_sign" THEN docs \cap {resp'.doc} ELSE {}) :
       \A rq \in Requests :
          (ValidId(d) /\ HasOverlay(rq) /\ ApiSignReq(d, rq)) =>
              /\ resp'.status = 200
              /\ resp'.msg = "Dokument zostal podpisany."
              /\ Len(history') = Len(history) + 1
              /\ \E i \in 1..Len(history') :
                    /\ history'[i].doc_id = d
                    /\ RemoveAt(history', i) = history]_vars

\* a second document has just been signed, the first still in the history
C1_Witness ==
    /\ resp.op = "api_sign" /\ resp.status = 200
    /\ Len(history) >= 2
    /\ \E i \in 1..Len(history) : history[i].doc_id # resp.doc

\* C2: a successful api_sign(doc_id) empties the current pointer when it
\* named doc_id, and leaves it as it was when it named another document or
\* was empty.
C2_ClearsPointerIffCurrent ==
    [][\A d \in RequestIds :
          SignedOkStep(d) =>
              IF get_current_doc_id = d
              THEN current' = <<>>
              ELSE current' = current]_vars

\* a document was signed while the pointer named another one, and it still does
C2_Witness ==
    /\ Quiet
    /\ resp.op = "api_sign" /\ resp.status = 200
    /\ current # <<>> /\ current # resp.doc
    /\ current \in docs

\* C3: once api_sign(doc_id) has answered ok, the PDF, the rendered PNGs and
\* the meta file of doc_id are gone and stay gone, the history holds exactly
\* one entry for doc_id, and GET /sign/<doc_id> and POST /api/sign/<doc_id>
\* answer 404 and leave the history alone.
C3_SignedOnce ==
    [][/\ \A d \in signedOk' :
             /\ d \notin docs' /\ d \notin renders' /\ d \notin DOMAIN meta'
             /\ HistoryCount(history', d) = 1
       /\ \A d \in signedOk :
             (Sign(d) \/ ApiSign(d)) =>
                 resp'.status = 404 /\ history' = history]_vars

\* a signed document was asked for again and the answer was 404
C3_Witness ==
    /\ resp.status = 404
    /\ resp.op = "api_sign"
    /\ resp.doc \in signedOk

\* C4: a successful POST /upload makes the stored document the current one,
\* removes the PDF, PNGs and meta file of the document that was current
\* before, and leaves the history alone.
C4_UploadBecomesCurrent ==
    [][\A hasFile \in BOOLEAN : \A filename \in UploadNames :
          (Upload(hasFile, filename) /\ resp'.status = 200) =>
              LET old == get_current_doc_id
                  new == resp'.doc
              IN  /\ ValidId(new) /\ current' = new
                  /\ new \in docs'
                  /\ (old # None /\ old # new) =>
                        /\ old \notin docs'
                        /\ old \notin renders'
                        /\ old \notin DOMAIN meta'
                  /\ history' = history]_vars

\* a second upload replaced a current document that had been rendered
C4_Witness ==
    /\ resp.op = "upload" /\ resp.status = 200
    /\ Len(issued) >= 2
    /\ issued[Len(issued) - 1] \notin signedOk
    /\ issued[Len(issued) - 1] \notin docs
    /\ current = issued[Len(issued)]

\* C5: GET /sign/current follows the pointer.  With a current document it
\* serves the signing page of that document, which is the most recently
\* uploaded one and has not been signed; with none it serves the upload page
\* with the information message, not an error.
C5_StableLinkFollowsPointer ==
    [][SignCurrent =>
          IF current # <<>>
          THEN /\ resp' = Response("sign_current", 200, current, "sign", <<>>)
               /\ current = issued[Len(issued)]
               /\ current \notin signedOk
               /\ current \in renders'
          ELSE /\ resp' = Response("sign_current", 200, None,
                                   "upload: Brak aktywnego dokumentu", <<>>)
               /\ issued = <<>> \/ issued[Len(issued)] \in signedOk]_vars

\* after a signed document, the link shows the one uploaded since
C5_Witness ==
    /\ resp.op = "sign_current" /\ resp.msg = "sign"
    /\ signedOk # {}
    /\ resp.doc = current

\* the filename ends in a dot followed by "pdf" in any case
HasPdfExt(f) ==
    \E i \in 1..Len(f) :
        /\ f[i] = "."
        /\ \A j \in (i + 1)..Len(f) : f[j] # "."
        /\ Len(f) = i + 3
        /\ f[i + 1] \in {"p", "P"} /\ f[i + 2] \in {"d", "D"} /\ f[i + 3] \in {"f", "F"}

\* C6: POST /upload answers 400 when there is no file field, when the
\* filename is empty, or when the filename has no extension equal to "pdf"
\* in any case; an upload answered with 400 changes neither the pointer, nor
\* any stored file, nor the history.
C6_RejectedUploadChangesNothing ==
    [][\A hasFile \in BOOLEAN : \A filename \in UploadNames :
          Upload(hasFile, filename) =>
              /\ (~hasFile \/ filename = <<>> \/ ~HasPdfExt(filename)) =>
                    resp'.status = 400
              /\ resp'.status = 400 =>
                    UNCHANGED <<docs, renders, meta, current, history, issued>>]_vars

\* an upload was rejected for its extension while a document was current
C6_Witness ==
    /\ resp.op = "upload" /\ resp.status = 400
    /\ resp.msg = "Only PDF allowed"
    /\ current # <<>> /\ current \in docs

\* C7: api_sign checks in order and answers the first failure: a doc_id that
\* is not valid gives 400; else a missing PDF gives 404 "PDF not found"; else
\* no collected overlay gives 400 "No signature data received"; else no
\* overlay above 2000 bytes gives 400 "Signature looks empty".  Every answer
\* but ok leaves the files, the pointer and the history unchanged, and they
\* change only when all four checks pass.
C7_ChecksInOrder ==
    [][\A d \in RequestIds \cap {resp'.doc} : \A rq \in RequestsFor(d) :
          ApiSignReq(d, rq) =>
              LET pages == collect_pages(rq)
                  big == \E i \in 1..Len(pages) : pages[i] > 2000
                  answer == <<resp'.status, resp'.msg>>
              IN  /\ ~ValidId(d) => answer = <<400, "Invalid doc_id">>
                  /\ (ValidId(d) /\ d \notin docs) => answer = <<404, "PDF not found">>
                  /\ (ValidId(d) /\ d \in docs /\ pages = <<>>) =>
                        answer = <<400, "No signature data received">>
                  /\ (ValidId(d) /\ d \in docs /\ pages # <<>> /\ ~big) =>
                        answer = <<400, "Signature looks empty">>
                  /\ resp'.status # 200 =>
                        UNCHANGED <<docs, renders, meta, current, history>>
                  /\ ~UNCHANGED <<docs, renders, meta, current, history>> =>
                        (ValidId(d) /\ d \in docs /\ pages # <<>> /\ big)]_vars

\* signed_at read back as a number of seconds
SignedAt(e) == e.signed_at[1] * 10 + e.signed_at[2]

\* C8: the stored history is newest first: signed_at never increases along
\* the list, and the entry a successful api_sign adds stands behind every
\* entry with the same signed_at.
C8_HistoryNewestFirst ==
    [][/\ \A i \in 1..Len(history') : \A j \in i..Len(history') :
             SignedAt(history'[i]) >= SignedAt(history'[j])
       /\ \A d \in RequestIds :
             SignedOkStep(d) =>
                 \E i \in 1..Len(history') :
                     /\ history'[i].doc_id = d
                     /\ RemoveAt(history', i) = history
                     /\ \A j \in (i + 1)..Len(history') :
                           SignedAt(history'[j]) < SignedAt(history'[i])]_vars

\* two documents signed in the same second, the later one listed behind
\* the earlier one
C8_Witness ==
    /\ resp.op = "api_sign" /\ resp.status = 200
    /\ Len(history) >= 2
    /\ \E i \in 2..Len(history) :
          /\ history[i].doc_id = resp.doc
          /\ SignedAt(history[i - 1]) = SignedAt(history[i])

\* C9: between requests that do not overlap at most one PDF is stored, and
\* the pointer is empty or names a document whose PDF is stored.
C9_OneDocumentNoDanglingPointer ==
    /\ Cardinality(docs) <= 1
    /\ current = <<>> \/ current \in docs

\* a second upload has replaced the first
C9_Witness ==
    /\ Len(issued) >= 2
    /\ docs = {issued[Len(issued)]}
    /\ issued[1] \notin signedOk
    /\ current \in docs

\* C10: when api_sign requests overlap, every document signed ends up with
\* exactly one history entry and no recorded entry is lost: once no request
\* is in flight, the history holds one entry for each document api_sign
\* answered ok for, and none for any other.
C10_OverlapExactlyOnce ==
    Quiet =>
        \A d \in UuidIds :
            HistoryCount(history, d) = IF d \in signedOk THEN 1 ELSE 0

=============================================================================
